---- MODULE Spec2Model ----
(***************************************************************************)
(* Model of Eth2DaiInstantService.js (class Eth2DaiInstant): the order     *)
(* construction pipeline of sell / buy, the quote memo fields              *)
(* _buyAmount / _payAmount, the slippage tolerance and the proxy service   *)
(* state the pipeline reads and writes.                                    *)
(*                                                                         *)
(* Representation choices:                                                 *)
(*  - a method name is the sequence of its camel-case words, each with the *)
(*    case it has in the name ("sellAllAmountPayEth" is                    *)
(*    <<"sell","All","Amount","Pay","Eth">>), so that concatenation,       *)
(*    capitalisation of the first character, toLowerCase and includes are  *)
(*    computed rather than looked up;                                      *)
(*  - an optional JavaScript value is a sequence: <<>> is undefined,       *)
(*    <<v>> is the value v;                                                *)
(*  - the slippage tolerance is a number of hundredths (0.02 is 2), and    *)
(*    the products quote * (1 -/+ tolerance) are exact rationals; IEEE     *)
(*    double rounding is not modelled;                                     *)
(*  - toFixed('wei') shifts by WeiPerUnit, a scaled-down 10^18.            *)
(***************************************************************************)
EXTENDS Integers, Sequences, FiniteSets, TLC

VARIABLES slippage, buyAmountMemo, payAmountMemo, proxyExists, req, calc

vars == <<slippage, buyAmountMemo, payAmountMemo, proxyExists, req, calc>>

(***************************************************************************)
(* Bounds and constants                                                    *)
(***************************************************************************)
MaxAmount == 1

MaxRawQuote == 60

SlipDen == 100

DefaultSlippage == 2

WeiPerUnit == 1000

Tokens == {"ETH", "DAI", "MKR"}

Amounts == 0..MaxAmount

SlippageChoices == {0, 2, 50}

PureSlippages == {0, 1, 2, 50, 100, 150}

Slots == {"a", "b"}

SeqSlots == {"a"}

ConcTokens == {"ETH", "DAI"}

ConcAmounts == {1}

Undefined == << >>

Some(v) == <<v>>

(***************************************************************************)
(* JavaScript truthiness of an optional number: undefined and 0 are falsy. *)
(***************************************************************************)
Truthy(m) == m # Undefined /\ m[1] # 0

(***************************************************************************)
(* Method names                                                            *)
(***************************************************************************)
sellAllAmount == <<"sell", "All", "Amount">>

buyAllAmount == <<"buy", "All", "Amount">>

BaseMethods == {sellAllAmount, buyAllAmount}

\* w.charAt(0).toUpperCase() + w.slice(1) on one word
UpperFirst(w) ==
  CASE w = "sell" -> "Sell"
    [] w = "buy" -> "Buy"
    [] w = "create" -> "Create"
    [] OTHER -> w

\* w.toLowerCase() on one word
LowerWord(w) ==
  CASE w = "Sell" -> "sell"
    [] w = "Buy" -> "buy"
    [] w = "All" -> "all"
    [] w = "Amount" -> "amount"
    [] w = "Pay" -> "pay"
    [] w = "Eth" -> "eth"
    [] w = "And" -> "and"
    [] w = "Create" -> "create"
    [] OTHER -> w

\* method.charAt(0).toUpperCase() + method.slice(1)
Capitalize(m) == <<UpperFirst(Head(m))>> \o Tail(m)

\* method.toLowerCase()
ToLowerCase(m) == [i \in 1..Len(m) |-> LowerWord(m[i])]

Includes_wholeName(m, pat) == m = pat

\* method.includes(pat)
Includes(m, pat) ==
  \E i \in 1..(Len(m) - Len(pat) + 1) : SubSeq(m, i, i + Len(pat) - 1) = pat

_setMethod_firstMatchLost(sellToken, buyToken, method, proxy) ==
  IF sellToken = "ETH" /\ proxy = Undefined
    THEN <<"create", "And">> \o Capitalize(method) \o <<"Pay", "Eth">>
  ELSE IF sellToken = "ETH"
    THEN method \o <<"Pay", "Eth">>
  ELSE IF buyToken = "ETH"
    THEN method \o <<"Buy", "Eth">>
  ELSE method

_setMethod(sellToken, buyToken, method, proxy) ==
  IF buyToken = "ETH"
    THEN method \o <<"Buy", "Eth">>
  ELSE IF sellToken = "ETH" /\ proxy = Undefined
    THEN <<"create", "And">> \o Capitalize(method) \o <<"Pay", "Eth">>
  ELSE IF sellToken = "ETH"
    THEN method \o <<"Pay", "Eth">>
  ELSE method

(***************************************************************************)
(* Collaborators' answers that the service only reads                      *)
(***************************************************************************)
\* this.get('token').getToken(token).address()
_getTokenAddress(token) ==
  CASE token = "WETH" -> "0xWETH"
    [] token = "DAI" -> "0xDAI"
    [] token = "MKR" -> "0xMKR"
    [] OTHER -> "0xNONE"

\* getContractByName(name).address
ContractAddress(name) ==
  CASE name = "MAKER_OTC" -> "0xOTC"
    [] name = "PROXY_REGISTRY" -> "0xREGISTRY"
    [] name = "OASIS_PROXY" -> "0xOASISPROXY"
    [] OTHER -> "0xNONE"

_otc == "MAKER_OTC"

_otcProxy == "OASIS_PROXY"

\* getCurrency(amount, token): an amount of human units tagged with its token
getCurrency(amount, symbol) == [amount |-> amount, symbol |-> symbol]

\* Currency.toFixed('wei'): the amount shifted to integer units
ToFixedWei(c) == c.amount * WeiPerUnit

_valueForContract(amount, symbol) == ToFixedWei(getCurrency(amount, symbol))

\* Integer division that rounds toward zero
TruncDiv(n, d) == IF n >= 0 THEN n \div d ELSE -((-n) \div d)

\* ETH.wei(num / den).toFixed('wei')
EthWeiToFixed(num, den) == TruncDiv(num, den)

\* Relative value of one unit of a token on the exchange
TokenValue(addr) ==
  CASE addr = "0xDAI" -> 1
    [] addr = "0xWETH" -> 2
    [] addr = "0xMKR" -> 2
    [] OTHER -> 1

\* MAKER_OTC.getBuyAmount(buyAddr, payAddr, payAmt)
OtcGetBuyAmount(buyAddr, payAddr, payAmt) ==
  (payAmt * TokenValue(payAddr)) \div TokenValue(buyAddr)

\* MAKER_OTC.getPayAmount(payAddr, buyAddr, buyAmt)
OtcGetPayAmount(payAddr, buyAddr, buyAmt) ==
  (buyAmt * TokenValue(buyAddr)) \div TokenValue(payAddr)

(***************************************************************************)
(* Slippage bound calculator: the arithmetic of _minBuyAmount and          *)
(* _maxPayAmount once the quote is known                                   *)
(***************************************************************************)
MinBuyAdjusted_plus(buyAmount, slip) ==
  EthWeiToFixed(buyAmount * (SlipDen + slip), SlipDen)

\* buyAmount * (1 - this._slippage), then ETH.wei(..).toFixed('wei')
MinBuyAdjusted(buyAmount, slip) ==
  EthWeiToFixed(buyAmount * (SlipDen - slip), SlipDen)

MaxPayAdjusted_minus(payAmount, slip) ==
  EthWeiToFixed(payAmount * (SlipDen - slip), SlipDen)

\* payAmount * (1 + this._slippage), then ETH.wei(..).toFixed('wei')
MaxPayAdjusted(payAmount, slip) ==
  EthWeiToFixed(payAmount * (SlipDen + slip), SlipDen)

(***************************************************************************)
(* Call parameters and transaction options                                 *)
(***************************************************************************)
Addr(a) == [kind |-> "address", addr |-> a, num |-> 0]

Uint(n) == [kind |-> "uint", addr |-> "", num |-> n]

_buildParams_swapped(sendToken, amount, buyToken, limit, method) ==
  LET otcAddress == ContractAddress(_otc)
      orderAmount == _valueForContract(amount, sendToken)
  IN <<Addr(otcAddress), Addr(_getTokenAddress(buyToken)), Uint(orderAmount),
       Addr(_getTokenAddress(sendToken)), Uint(limit)>>

_buildParams(sendToken, amount, buyToken, limit, method) ==
  LET otcAddress == ContractAddress(_otc)
      daiAddress == _getTokenAddress("DAI")
      wethAddress == _getTokenAddress("WETH")
      orderAmount == _valueForContract(amount, sendToken)
      registryAddress == ContractAddress("PROXY_REGISTRY")
  IN CASE method = <<"sell", "All", "Amount", "Pay", "Eth">> ->
            <<Addr(otcAddress), Addr(wethAddress), Addr(daiAddress), Uint(limit)>>
       [] method = <<"create", "And", "Sell", "All", "Amount", "Pay", "Eth">> ->
            <<Addr(registryAddress), Addr(otcAddress), Addr(daiAddress), Uint(limit)>>
       [] method = <<"buy", "All", "Amount", "Pay", "Eth">> ->
            <<Addr(otcAddress), Addr(daiAddress), Uint(orderAmount), Addr(wethAddress)>>
       [] method = <<"create", "And", "Buy", "All", "Amount", "Pay", "Eth">> ->
            <<Addr(registryAddress), Addr(otcAddress), Addr(daiAddress), Uint(orderAmount)>>
       [] OTHER ->
            <<Addr(otcAddress), Addr(_getTokenAddress(sendToken)), Uint(orderAmount),
              Addr(_getTokenAddress(buyToken)), Uint(limit)>>

_buildOptions_sellFirst(amount, sellToken, method, maxPayAmount) ==
  [otc |-> _otc,
   dsProxy |-> IF ~Includes(method, <<"create">>) THEN Some(TRUE) ELSE Undefined,
   value |-> IF sellToken = "ETH"
               THEN Some(_valueForContract(amount, "WETH"))
             ELSE IF Includes(ToLowerCase(method), <<"buy", "all", "amount", "pay", "eth">>)
               THEN maxPayAmount
             ELSE Undefined]

\* options.dsProxy and options.value are optional: <<>> when never assigned
_buildOptions(amount, sellToken, method, maxPayAmount) ==
  [otc |-> _otc,
   dsProxy |-> IF ~Includes(method, <<"create">>) THEN Some(TRUE) ELSE Undefined,
   value |-> IF Includes(ToLowerCase(method), <<"buy", "all", "amount", "pay", "eth">>)
               THEN maxPayAmount
             ELSE IF sellToken = "ETH"
               THEN Some(_valueForContract(amount, "WETH"))
             ELSE Undefined]

SellCurrency_swapped(buyToken) == IF buyToken = "DAI" THEN "WETH" ELSE "DAI"

\* buyToken === 'DAI' ? DAI : WETH, the currency handed to OtcSellOrder.build
SellCurrency(buyToken) == IF buyToken = "DAI" THEN "DAI" ELSE "WETH"

Wrapped_notWrapped(token) == token

\* sell === 'ETH' ? 'WETH' : sell
Wrapped(token) == IF token = "ETH" THEN "WETH" ELSE token

(***************************************************************************)
(* One sell / buy call.  A call is suspended at its await points:          *)
(*   "currentProxy"  awaiting proxy.currentProxy()                         *)
(*   "ensureProxy"   awaiting proxy.ensureProxy()                          *)
(*   "quote"         awaiting the exchange's getBuyAmount / getPayAmount   *)
(*   "limit"         getBuyAmount / getPayAmount returned, the slippage    *)
(*                   computation of the caller has not resumed yet         *)
(*   "allowance"     awaiting allowance.requireAllowance()                 *)
(*   "done"          the order was handed to Otc*Order.build               *)
(*   "failed"        a collaborator raised an error and the call rejected  *)
(* steps, found and error are history fields: the steps of the call begun  *)
(* so far, in the order they were begun; what currentProxy() answered; and *)
(* the collaborator step that raised together with the error the call      *)
(* rejected with.                                                          *)
(* asked, memo0, clean and twin are history fields: the query the call     *)
(* itself issued; the memo field as the call found it when it started      *)
(* (kept while only sell / buy calls run); whether no other call was       *)
(* running when the call started and nothing else was called on the        *)
(* service since; and the limit of the immediately                         *)
(* preceding call when that call had the same inputs and ran clean.  The   *)
(* record of a finished call is kept until the next thing happens on the   *)
(* service.                                                                *)
(***************************************************************************)
ProxyHandle == "0xPROXY"

IdleReq ==
  [pc |-> "idle", op |-> "none", sell |-> "none", buy |-> "none", amount |-> 0,
   proxy |-> Undefined, method |-> << >>, asked |-> Undefined,
   quote |-> Undefined, limit |-> Undefined, params |-> << >>,
   options |-> Undefined, allowance |-> Undefined, order |-> Undefined,
   memo0 |-> Undefined, clean |-> FALSE, twin |-> Undefined,
   steps |-> << >>, found |-> Undefined, error |-> Undefined]

\* the call begins the steps new, in this order
Log(r, new) == [r EXCEPT !.steps = r.steps \o new]

\* the error a collaborator raises when the step fails
RaisedBy(step) ==
  CASE step = "currentProxy" -> "ProxyLookupFailed"
    [] step = "ensureProxy" -> "ProxyCreationFailed"
    [] step = "registry" -> "UnresolvedAsset"
    [] step = "quote" -> "QuoteUnavailable"
    [] step = "requireAllowance" -> "AllowanceFailed"

BaseMethod(op) == IF op = "sell" THEN sellAllAmount ELSE buyAllAmount

CachedQuote_wrongField(op, buyMemo, payMemo) ==
  LET other == IF op = "sell" THEN payMemo ELSE buyMemo
  IN IF other = Undefined THEN Some(0) ELSE other

\* the memo field _minBuyAmount (sell) or _maxPayAmount (buy) uses as quote
CachedQuote(op, buyMemo, payMemo) == IF op = "sell" THEN buyMemo ELSE payMemo

\* the memo field whose truthiness decides whether the exchange is queried
CachedTest(op, buyMemo, payMemo) == IF op = "sell" THEN buyMemo ELSE payMemo

\* the arguments of this.getBuyAmount / this.getPayAmount made by the call
QueryOf(r) ==
  IF r.op = "sell"
    THEN [fn |-> "getBuyAmount", buyToken |-> Wrapped(r.buy),
          payToken |-> Wrapped(r.sell), amount |-> r.amount]
    ELSE [fn |-> "getPayAmount", buyToken |-> Wrapped(r.buy),
          payToken |-> Wrapped(r.sell), amount |-> r.amount]

\* getBuyAmount(buyToken, payToken, sellAmount): the exchange's answer
GetBuyAmountAnswer(buyToken, payToken, sellAmount) ==
  OtcGetBuyAmount(_getTokenAddress(buyToken), _getTokenAddress(payToken),
                  _valueForContract(sellAmount, buyToken))

\* getPayAmount(payToken, buyToken, buyAmount): the exchange's answer
GetPayAmountAnswer(payToken, buyToken, buyAmount) ==
  OtcGetPayAmount(_getTokenAddress(payToken), _getTokenAddress(buyToken),
                  _valueForContract(buyAmount, buyToken))

\* the limit of the order: minFillAmount of sell, maxPayAmount of buy
LimitOf(op, quote, slip) ==
  IF op = "sell" THEN MinBuyAdjusted(quote, slip) ELSE MaxPayAdjusted(quote, slip)

\* _buildParams as sell and buy call it
ParamsOf(op, sell, buy, amount, limit, method) ==
  IF op = "sell"
    THEN _buildParams(Wrapped(sell), amount, Wrapped(buy), limit, method)
    ELSE _buildParams(Wrapped(buy), amount, Wrapped(sell), limit, method)

\* _buildOptions as sell and buy call it: sell passes no maxPayAmount
OptionsOf(op, sell, amount, limit, method) ==
  IF op = "sell"
    THEN _buildOptions(amount, sell, method, Undefined)
    ELSE _buildOptions(amount, sell, method, Some(limit))

\* OtcSellOrder.build(...) / OtcBuyOrder.build(...): the arguments handed over
OrderOf(op, buy, method, params, options) ==
  IF op = "sell"
    THEN [kind |-> "OtcSellOrder", contract |-> _otcProxy, method |-> method,
          params |-> params, currency |-> Some(SellCurrency(Wrapped(buy))),
          options |-> options]
    ELSE [kind |-> "OtcBuyOrder", contract |-> _otcProxy, method |-> method,
          params |-> params, currency |-> Undefined, options |-> options]

\* the order is built and returned
Built(r) ==
  [Log(r, <<"build">>) EXCEPT
     !.pc = "done",
     !.order = Some(OrderOf(r.op, r.buy, r.method, r.params, r.options[1]))]

Failed_fallback(r, step) ==
  [r EXCEPT !.pc = "failed",
            !.error = Some([at |-> step, error |-> RaisedBy(step)]),
            !.memo0 = Undefined, !.clean = FALSE, !.twin = Undefined,
            !.order = Some(OrderOf(r.op, r.buy, r.method, r.params,
                             [otc |-> _otc, dsProxy |-> Undefined,
                              value |-> Undefined]))]

\* an awaited or called collaborator raised: sell / buy has no handler, the
\* call rejects with that error and nothing after the step runs (the
\* comparison of the call with earlier calls ends here)
Failed(r, step) ==
  [r EXCEPT !.pc = "failed",
            !.error = Some([at |-> step, error |-> RaisedBy(step)]),
            !.memo0 = Undefined, !.clean = FALSE, !.twin = Undefined]

AllowanceArgs_unwrapped(r) == <<r.sell, r.proxy[1]>>

\* the arguments of requireAllowance(sellToken, proxy)
AllowanceArgs(r) == <<Wrapped(r.sell), r.proxy[1]>>

Limited_optionsFirst(r, quote, slip) ==
  LET limit == LimitOf(r.op, quote, slip)
      r2 == [Log(r, <<"limit", "_buildOptions", "_buildParams">>) EXCEPT
               !.quote = Some(quote), !.limit = Some(limit),
               !.params = ParamsOf(r.op, r.sell, r.buy, r.amount, limit, r.method),
               !.options = Some(OptionsOf(r.op, r.sell, r.amount, limit, r.method))]
  IN IF r.proxy # Undefined
       THEN [Log(r2, <<"requireAllowance">>) EXCEPT
               !.pc = "allowance",
               !.allowance = Some(AllowanceArgs(r))]
       ELSE Built(r2)

\* the quote is known: limit, parameters, options, then the allowance call
Limited(r, quote, slip) ==
  LET limit == LimitOf(r.op, quote, slip)
      r2 == [Log(r, <<"limit", "_buildParams", "_buildOptions">>) EXCEPT
               !.quote = Some(quote), !.limit = Some(limit),
               !.params = ParamsOf(r.op, r.sell, r.buy, r.amount, limit, r.method),
               !.options = Some(OptionsOf(r.op, r.sell, r.amount, limit, r.method))]
  IN IF r.proxy # Undefined
       THEN [Log(r2, <<"requireAllowance">>) EXCEPT
               !.pc = "allowance",
               !.allowance = Some(AllowanceArgs(r))]
       ELSE Built(r2)

\* _checkProxy returned proxy: the method is selected
Selected(r, proxy) ==
  [Log(r, <<"_setMethod">>) EXCEPT
     !.proxy = proxy,
     !.method = _setMethod(r.sell, r.buy, BaseMethod(r.op), proxy)]

\* _checkProxy returned: method selection, then the memo test
ProxyResolved(r, proxy, buyMemo, payMemo, slip) ==
  LET r1 == Selected(r, proxy)
  IN IF Truthy(CachedTest(r.op, buyMemo, payMemo))
       THEN Limited(r1, CachedQuote(r.op, buyMemo, payMemo)[1], slip)
       ELSE [Log(r1, <<"quote">>) EXCEPT !.pc = "quote",
                                         !.asked = Some(QueryOf(r))]

\* _checkProxy returned and the token registry raises at the first lookup
\* after it: in getBuyAmount / getPayAmount when the exchange is to be
\* queried, in _buildParams when the memo field is used
RegistryFailed(r, proxy, buyMemo, payMemo) ==
  LET r1 == Selected(r, proxy)
  IN IF Truthy(CachedTest(r.op, buyMemo, payMemo))
       THEN Failed(Log(r1, <<"limit", "_buildParams">>), "registry")
       ELSE Failed(Log(r1, <<"quote">>), "registry")

\* another sell / buy call starts: no running call is clean or has a twin
\* any more, and the record of a finished call is dropped
Interleaved(f) ==
  [t \in Slots |-> IF f[t].pc \in {"done", "failed"} THEN IdleReq
                   ELSE [f[t] EXCEPT !.twin = Undefined, !.clean = FALSE]]

\* setSlippageLimit, getBuyAmount or getPayAmount is called from outside:
\* the same, and no running call is compared with its run alone any more
Disturbed(f) ==
  [t \in Slots |-> IF f[t].pc \in {"done", "failed"} THEN IdleReq
                   ELSE [f[t] EXCEPT !.twin = Undefined, !.clean = FALSE,
                                     !.memo0 = Undefined]]

SameInputs(r, op, sell, buy, amount) ==
  r.op = op /\ r.sell = sell /\ r.buy = buy /\ r.amount = amount

(***************************************************************************)
(* Actions                                                                 *)
(***************************************************************************)
\* proxy.currentProxy(): the caller's proxy, or nothing
CurrentProxy(exists) == IF exists THEN Some(ProxyHandle) ELSE Undefined

NeedsEnsureProxy_nativeToo(proxy, sellCurrency) == proxy = Undefined

\* _checkProxy goes on to ensureProxy(): no proxy and the sell asset not ETH
NeedsEnsureProxy(proxy, sellCurrency) ==
  proxy = Undefined /\ sellCurrency # "ETH"

\* sell(sell, buy, amount) or buy(buy, sell, amount) is called
Start(s, tokens, amounts) ==
  /\ req[s].pc \in {"idle", "done", "failed"}
  /\ \E op \in {"sell", "buy"}, sell \in tokens, buy \in tokens, amount \in amounts :
       req' = [Interleaved(req) EXCEPT ![s] =
                 [IdleReq EXCEPT !.pc = "currentProxy", !.steps = <<"currentProxy">>,
                    !.op = op, !.sell = sell,
                    !.buy = buy, !.amount = amount,
                    !.memo0 = Some(CachedTest(op, buyAmountMemo, payAmountMemo)),
                    !.clean = \A t \in Slots \ {s} :
                                 req[t].pc \in {"idle", "done", "failed"},
                    !.twin = IF req[s].pc = "done" /\ req[s].clean
                                /\ SameInputs(req[s], op, sell, buy, amount)
                               THEN req[s].limit ELSE Undefined]]
  /\ UNCHANGED <<slippage, buyAmountMemo, payAmountMemo, proxyExists, calc>>

\* currentProxy() answers; _checkProxy returns or goes on to ensureProxy()
CurrentProxyReturn(s) ==
  /\ req[s].pc = "currentProxy"
  /\ LET r == [req[s] EXCEPT !.found = Some(CurrentProxy(proxyExists))]
     IN IF r.found[1] # Undefined
          THEN req' = [req EXCEPT ![s] = ProxyResolved(r, r.found[1],
                                    buyAmountMemo, payAmountMemo, slippage)]
        ELSE IF NeedsEnsureProxy(r.found[1], r.sell)
          THEN req' = [req EXCEPT ![s] =
                         [Log(r, <<"ensureProxy">>) EXCEPT !.pc = "ensureProxy"]]
        ELSE req' = [req EXCEPT ![s] = ProxyResolved(r, Undefined,
                                    buyAmountMemo, payAmountMemo, slippage)]
  /\ UNCHANGED <<slippage, buyAmountMemo, payAmountMemo, proxyExists, calc>>

\* ensureProxy() answers with the proxy it made sure exists
EnsureProxyReturn(s) ==
  /\ req[s].pc = "ensureProxy"
  /\ proxyExists' = TRUE
  /\ req' = [req EXCEPT ![s] = ProxyResolved(req[s], Some(ProxyHandle),
                                buyAmountMemo, payAmountMemo, slippage)]
  /\ UNCHANGED <<slippage, buyAmountMemo, payAmountMemo, calc>>

\* the exchange answers: the memo field is assigned and returned
QuoteReturn(s) ==
  /\ req[s].pc = "quote"
  /\ LET q == req[s].asked[1]
     IN IF req[s].op = "sell"
          THEN /\ buyAmountMemo' =
                    Some(GetBuyAmountAnswer(q.buyToken, q.payToken, q.amount))
               /\ req' = [req EXCEPT ![s].pc = "limit", ![s].quote = buyAmountMemo']
               /\ UNCHANGED payAmountMemo
          ELSE /\ payAmountMemo' =
                    Some(GetPayAmountAnswer(q.payToken, q.buyToken, q.amount))
               /\ req' = [req EXCEPT ![s].pc = "limit", ![s].quote = payAmountMemo']
               /\ UNCHANGED buyAmountMemo
  /\ UNCHANGED <<slippage, proxyExists, calc>>

\* _minBuyAmount / _maxPayAmount resumes and reads the tolerance
ComputeLimit(s) ==
  /\ req[s].pc = "limit"
  /\ req' = [req EXCEPT ![s] = Limited(req[s], req[s].quote[1], slippage)]
  /\ UNCHANGED <<slippage, buyAmountMemo, payAmountMemo, proxyExists, calc>>

\* requireAllowance() completes; the order is built
AllowanceReturn(s) ==
  /\ req[s].pc = "allowance"
  /\ req' = [req EXCEPT ![s] = Built(req[s])]
  /\ UNCHANGED <<slippage, buyAmountMemo, payAmountMemo, proxyExists, calc>>

\* currentProxy() raises
CurrentProxyFails(s) ==
  /\ req[s].pc = "currentProxy"
  /\ req' = [req EXCEPT ![s] = Failed(req[s], "currentProxy")]
  /\ UNCHANGED <<slippage, buyAmountMemo, payAmountMemo, proxyExists, calc>>

\* ensureProxy() raises: no proxy was made
EnsureProxyFails(s) ==
  /\ req[s].pc = "ensureProxy"
  /\ req' = [req EXCEPT ![s] = Failed(req[s], "ensureProxy")]
  /\ UNCHANGED <<slippage, buyAmountMemo, payAmountMemo, proxyExists, calc>>

\* the exchange raises: the memo field is not assigned
QuoteFails(s) ==
  /\ req[s].pc = "quote"
  /\ req' = [req EXCEPT ![s] = Failed(req[s], "quote")]
  /\ UNCHANGED <<slippage, buyAmountMemo, payAmountMemo, proxyExists, calc>>

\* requireAllowance() raises
AllowanceFails(s) ==
  /\ req[s].pc = "allowance"
  /\ req' = [req EXCEPT ![s] = Failed(req[s], "requireAllowance")]
  /\ UNCHANGED <<slippage, buyAmountMemo, payAmountMemo, proxyExists, calc>>

\* the call resumes after _checkProxy or after the quote and the token
\* registry raises at the first lookup the resumed code makes
RegistryFails(s) ==
  /\ \/ /\ req[s].pc = "currentProxy"
        /\ ~NeedsEnsureProxy(CurrentProxy(proxyExists), req[s].sell)
        /\ req' = [req EXCEPT ![s] =
                     RegistryFailed(
                       [req[s] EXCEPT !.found = Some(CurrentProxy(proxyExists))],
                       CurrentProxy(proxyExists), buyAmountMemo, payAmountMemo)]
        /\ UNCHANGED proxyExists
     \/ /\ req[s].pc = "ensureProxy"
        /\ proxyExists' = TRUE
        /\ req' = [req EXCEPT ![s] =
                     RegistryFailed(req[s], Some(ProxyHandle),
                                    buyAmountMemo, payAmountMemo)]
     \/ /\ req[s].pc = "limit"
        /\ req' = [req EXCEPT ![s] =
                     Failed(Log(req[s], <<"limit", "_buildParams">>), "registry")]
        /\ UNCHANGED proxyExists
  /\ UNCHANGED <<slippage, buyAmountMemo, payAmountMemo, calc>>

setSlippageLimit ==
  /\ \E limit \in SlippageChoices : slippage' = limit
  /\ req' = Disturbed(req)
  /\ UNCHANGED <<buyAmountMemo, payAmountMemo, proxyExists, calc>>

\* getBuyAmount called from outside the service, call and answer in one step
getBuyAmount ==
  /\ \E buyToken \in Tokens \ {"ETH"}, payToken \in Tokens \ {"ETH"},
        sellAmount \in Amounts :
       buyAmountMemo' = Some(GetBuyAmountAnswer(buyToken, payToken, sellAmount))
  /\ req' = Disturbed(req)
  /\ UNCHANGED <<slippage, payAmountMemo, proxyExists, calc>>

\* getPayAmount called from outside the service, call and answer in one step
getPayAmount ==
  /\ \E payToken \in Tokens \ {"ETH"}, buyToken \in Tokens \ {"ETH"},
        buyAmount \in Amounts :
       payAmountMemo' = Some(GetPayAmountAnswer(payToken, buyToken, buyAmount))
  /\ req' = Disturbed(req)
  /\ UNCHANGED <<slippage, buyAmountMemo, proxyExists, calc>>

(***************************************************************************)
(* The pure functions applied to one drawn input: calc holds the function, *)
(* its arguments and, once applied, its result (method for _setMethod, out *)
(* for the two slippage bounds).  For getBuyAmount / getPayAmount called   *)
(* once on a fresh service, calc also holds the token whose currency the   *)
(* amount was converted in (unit), the integer sent to the exchange (sent) *)
(* and the exchange's answer; out is what the function returned.           *)
(***************************************************************************)
IdleCalc ==
  [fn |-> "none", sell |-> "none", buy |-> "none", base |-> << >>,
   proxy |-> Undefined, quote |-> 0, slip |-> 0, method |-> << >>,
   out |-> Undefined, amount |-> 0, unit |-> "none", sent |-> 0, answer |-> 0]

\* the token symbols getBuyAmount / getPayAmount are called with
QuoteTokens == (Tokens \ {"ETH"}) \cup {"WETH"}

MethodTokens == Tokens \cup {"WETH"}

ProxyStates == {Undefined, Some(ProxyHandle)}

RawQuotes == 0..MaxRawQuote

CalcInputs ==
  {[IdleCalc EXCEPT !.fn = "_setMethod", !.sell = a, !.buy = b, !.base = m,
                    !.proxy = p] :
     a \in MethodTokens, b \in MethodTokens, m \in BaseMethods, p \in ProxyStates}
  \cup
  {[IdleCalc EXCEPT !.fn = f, !.quote = q, !.slip = t] :
     f \in {"_minBuyAmount", "_maxPayAmount"}, q \in RawQuotes, t \in PureSlippages}
  \cup
  {[IdleCalc EXCEPT !.fn = f, !.buy = b, !.sell = a, !.amount = n] :
     f \in {"getBuyAmount", "getPayAmount"}, b \in QuoteTokens, a \in QuoteTokens,
     n \in Amounts}

ApplySetMethod ==
  /\ calc.fn = "_setMethod" /\ calc.method = << >>
  /\ calc' = [calc EXCEPT
                !.method = _setMethod(calc.sell, calc.buy, calc.base, calc.proxy)]
  /\ UNCHANGED <<slippage, buyAmountMemo, payAmountMemo, proxyExists, req>>

ApplyMinBuyAmount ==
  /\ calc.fn = "_minBuyAmount" /\ calc.out = Undefined
  /\ calc' = [calc EXCEPT !.out = Some(MinBuyAdjusted(calc.quote, calc.slip))]
  /\ UNCHANGED <<slippage, buyAmountMemo, payAmountMemo, proxyExists, req>>

ApplyMaxPayAmount ==
  /\ calc.fn = "_maxPayAmount" /\ calc.out = Undefined
  /\ calc' = [calc EXCEPT !.out = Some(MaxPayAdjusted(calc.quote, calc.slip))]
  /\ UNCHANGED <<slippage, buyAmountMemo, payAmountMemo, proxyExists, req>>

\* the currency value getBuyAmount converts: getCurrency(sellAmount, token)
\* with the token of the symbol buyToken
GetBuyAmountCurrency(buyToken, payToken, sellAmount) ==
  getCurrency(sellAmount, buyToken)

\* the currency value getPayAmount converts
GetPayAmountCurrency(payToken, buyToken, buyAmount) ==
  getCurrency(buyAmount, buyToken)

\* getBuyAmount(calc.buy, calc.sell, calc.amount): the answer is assigned to
\* the memo field and the memo field is returned
ApplyGetBuyAmount ==
  /\ calc.fn = "getBuyAmount" /\ calc.out = Undefined
  /\ LET c == GetBuyAmountCurrency(calc.buy, calc.sell, calc.amount)
         answer == GetBuyAmountAnswer(calc.buy, calc.sell, calc.amount)
     IN /\ buyAmountMemo' = Some(answer)
        /\ calc' = [calc EXCEPT !.unit = c.symbol, !.sent = ToFixedWei(c),
                                !.answer = answer, !.out = buyAmountMemo']
  /\ UNCHANGED <<slippage, payAmountMemo, proxyExists, req>>

\* getPayAmount(calc.sell, calc.buy, calc.amount)
ApplyGetPayAmount ==
  /\ calc.fn = "getPayAmount" /\ calc.out = Undefined
  /\ LET c == GetPayAmountCurrency(calc.sell, calc.buy, calc.amount)
         answer == GetPayAmountAnswer(calc.sell, calc.buy, calc.amount)
     IN /\ payAmountMemo' = Some(answer)
        /\ calc' = [calc EXCEPT !.unit = c.symbol, !.sent = ToFixedWei(c),
                                !.answer = answer, !.out = payAmountMemo']
  /\ UNCHANGED <<slippage, buyAmountMemo, proxyExists, req>>

\* the state after construction; the caller may or may not own a proxy
Init ==
  /\ slippage = DefaultSlippage
  /\ buyAmountMemo = Undefined
  /\ payAmountMemo = Undefined
  /\ proxyExists \in BOOLEAN
  /\ req = [s \in Slots |-> IdleReq]
  /\ calc = IdleCalc

Next ==
  \/ \E s \in SeqSlots : Start(s, Tokens, Amounts)
  \/ \E s \in SeqSlots : CurrentProxyReturn(s)
  \/ \E s \in SeqSlots : EnsureProxyReturn(s)
  \/ \E s \in SeqSlots : QuoteReturn(s)
  \/ \E s \in SeqSlots : ComputeLimit(s)
  \/ \E s \in SeqSlots : AllowanceReturn(s)
  \/ setSlippageLimit
  \/ getBuyAmount
  \/ getPayAmount

Spec == Init /\ [][Next]_vars

(***************************************************************************)
(* One caller, every collaborator of a sell / buy call may raise where it  *)
(* is called, the quote functions are also called from outside and the     *)
(* tolerance is held fixed                                                 *)
(***************************************************************************)
NextFail ==
  \/ \E s \in SeqSlots : Start(s, Tokens, Amounts)
  \/ \E s \in SeqSlots : CurrentProxyReturn(s)
  \/ \E s \in SeqSlots : EnsureProxyReturn(s)
  \/ \E s \in SeqSlots : QuoteReturn(s)
  \/ \E s \in SeqSlots : ComputeLimit(s)
  \/ \E s \in SeqSlots : AllowanceReturn(s)
  \/ \E s \in SeqSlots : CurrentProxyFails(s)
  \/ \E s \in SeqSlots : EnsureProxyFails(s)
  \/ \E s \in SeqSlots : QuoteFails(s)
  \/ \E s \in SeqSlots : AllowanceFails(s)
  \/ \E s \in SeqSlots : RegistryFails(s)
  \/ getBuyAmount
  \/ getPayAmount

SpecFail == Init /\ [][NextFail]_vars

(***************************************************************************)
(* Two sell / buy calls interleaved at their await points, the tolerance   *)
(* held fixed, nothing else called on the service and no collaborator      *)
(* raising                                                                 *)
(***************************************************************************)
NextConc ==
  \/ \E s \in Slots : Start(s, ConcTokens, ConcAmounts)
  \/ \E s \in Slots : CurrentProxyReturn(s)
  \/ \E s \in Slots : EnsureProxyReturn(s)
  \/ \E s \in Slots : QuoteReturn(s)
  \/ \E s \in Slots : ComputeLimit(s)
  \/ \E s \in Slots : AllowanceReturn(s)

SpecConc == Init /\ [][NextConc]_vars

(***************************************************************************)
(* The pure functions over drawn inputs                                    *)
(***************************************************************************)
InitPure ==
  /\ slippage = DefaultSlippage
  /\ buyAmountMemo = Undefined
  /\ payAmountMemo = Undefined
  /\ proxyExists = FALSE
  /\ req = [s \in Slots |-> IdleReq]
  /\ calc \in CalcInputs

NextPure ==
  \/ ApplySetMethod
  \/ ApplyMinBuyAmount
  \/ ApplyMaxPayAmount
  \/ ApplyGetBuyAmount
  \/ ApplyGetPayAmount

SpecPure == InitPure /\ [][NextPure]_vars

(***************************************************************************)
(* Properties                                                              *)
(***************************************************************************)
Done(s) == req[s].pc = "done"

TheOrder(s) == req[s].order[1]

\* what the exchange answers to the query for the call's own triple
OwnAnswer(r) ==
  IF r.op = "sell"
    THEN GetBuyAmountAnswer(Wrapped(r.buy), Wrapped(r.sell), r.amount)
    ELSE GetPayAmountAnswer(Wrapped(r.sell), Wrapped(r.buy), r.amount)

EndsWith(m, suffix) ==
  /\ Len(m) >= Len(suffix)
  /\ SubSeq(m, Len(m) - Len(suffix) + 1, Len(m)) = suffix

\* C1: after any sequence of earlier calls, the limit of an order constructed
\* with nothing else running comes from a quote that the call itself queried
\* for its own (buy asset, pay asset, amount) triple; a quote memoized by an
\* earlier call is never reused.
C1_QuoteQueriedByTheCall ==
  \A s \in Slots :
    Done(s) /\ req[s].clean =>
      /\ req[s].asked = Some(QueryOf(req[s]))
      /\ req[s].quote = Some(OwnAnswer(req[s]))
      /\ req[s].limit = Some(LimitOf(req[s].op, OwnAnswer(req[s]), slippage))

\* the order a call builds when it runs alone: from the memo field as it
\* found it, else from its own query
AloneOrder(r) ==
  LET quote == IF Truthy(r.memo0[1]) THEN r.memo0[1][1] ELSE OwnAnswer(r)
      limit == LimitOf(r.op, quote, slippage)
      method == _setMethod(r.sell, r.buy, BaseMethod(r.op), r.proxy)
  IN OrderOf(r.op, r.buy, method,
             ParamsOf(r.op, r.sell, r.buy, r.amount, limit, method),
             OptionsOf(r.op, r.sell, r.amount, limit, method))

\* C2: with the tolerance fixed, a call interleaved with another call builds
\* the same order (variant, parameters, limit, value) as it builds alone.
C2_ConcurrentCallsIndependent ==
  \A s \in Slots :
    Done(s) /\ req[s].memo0 # Undefined => TheOrder(s) = AloneOrder(req[s])

\* the variant the first-match table names, written out case by case
TableVariant(sellToken, buyToken, base, proxy) ==
  CASE buyToken = "ETH" /\ base = sellAllAmount ->
         <<"sell", "All", "Amount", "Buy", "Eth">>
    [] buyToken = "ETH" /\ base = buyAllAmount ->
         <<"buy", "All", "Amount", "Buy", "Eth">>
    [] buyToken # "ETH" /\ sellToken = "ETH" /\ proxy = Undefined
         /\ base = sellAllAmount ->
         <<"create", "And", "Sell", "All", "Amount", "Pay", "Eth">>
    [] buyToken # "ETH" /\ sellToken = "ETH" /\ proxy = Undefined
         /\ base = buyAllAmount ->
         <<"create", "And", "Buy", "All", "Amount", "Pay", "Eth">>
    [] buyToken # "ETH" /\ sellToken = "ETH" /\ proxy # Undefined
         /\ base = sellAllAmount ->
         <<"sell", "All", "Amount", "Pay", "Eth">>
    [] buyToken # "ETH" /\ sellToken = "ETH" /\ proxy # Undefined
         /\ base = buyAllAmount ->
         <<"buy", "All", "Amount", "Pay", "Eth">>
    [] buyToken # "ETH" /\ sellToken # "ETH" /\ base = sellAllAmount ->
         <<"sell", "All", "Amount">>
    [] buyToken # "ETH" /\ sellToken # "ETH" /\ base = buyAllAmount ->
         <<"buy", "All", "Amount">>

\* the parameter shapes _buildParams tells apart: four named ones and the
\* default
ParamShape(method) ==
  CASE method = <<"sell", "All", "Amount", "Pay", "Eth">> -> 1
    [] method = <<"create", "And", "Sell", "All", "Amount", "Pay", "Eth">> -> 2
    [] method = <<"buy", "All", "Amount", "Pay", "Eth">> -> 3
    [] method = <<"create", "And", "Buy", "All", "Amount", "Pay", "Eth">> -> 4
    [] method \in {<<"sell", "All", "Amount">>, <<"buy", "All", "Amount">>,
                   <<"sell", "All", "Amount", "Buy", "Eth">>,
                   <<"buy", "All", "Amount", "Buy", "Eth">>} -> 5
    [] OTHER -> 0

\* C3: for every sell asset, buy asset, base method and proxy state,
\* _setMethod returns the variant of the first-match table, and that variant
\* is one of the defined ones (it has one of the five parameter shapes).
C3_SetMethodFollowsTable ==
  calc.fn = "_setMethod" /\ calc.method # << >> =>
    /\ calc.method = TableVariant(calc.sell, calc.buy, calc.base, calc.proxy)
    /\ ParamShape(calc.method) \in 1..5

C3_Witness ==
  /\ calc.fn = "_setMethod" /\ calc.sell = "ETH" /\ calc.buy = "DAI"
  /\ calc.proxy = Undefined /\ calc.base = sellAllAmount
  /\ calc.method = <<"create", "And", "Sell", "All", "Amount", "Pay", "Eth">>

\* C4 as stated: the minimum acceptable receive amount is strictly less than
\* the raw quote whenever tolerance > 0, and equal to it when tolerance = 0.
C4_MinStrictlyLess ==
  calc.fn = "_minBuyAmount" /\ calc.out # Undefined =>
    /\ calc.slip > 0 => calc.out[1] < calc.quote
    /\ calc.slip = 0 => calc.out[1] = calc.quote

\* C4 amended: the minimum acceptable receive amount is strictly less than
\* the raw quote whenever tolerance > 0 and the quote is positive, and equal
\* to the raw quote when tolerance = 0 or the quote is 0.
C4_MinStrictlyLessIfPositive ==
  calc.fn = "_minBuyAmount" /\ calc.out # Undefined =>
    /\ calc.slip > 0 /\ calc.quote > 0 => calc.out[1] < calc.quote
    /\ calc.slip = 0 \/ calc.quote = 0 => calc.out[1] = calc.quote

C4_Witness ==
  /\ calc.fn = "_minBuyAmount" /\ calc.quote = 50 /\ calc.slip = 2
  /\ calc.out = Some(49)

\* C5 as stated: the maximum acceptable pay amount is strictly greater than
\* the raw quote whenever tolerance > 0, and equal to it when tolerance = 0.
C5_MaxStrictlyGreater ==
  calc.fn = "_maxPayAmount" /\ calc.out # Undefined =>
    /\ calc.slip > 0 => calc.out[1] > calc.quote
    /\ calc.slip = 0 => calc.out[1] = calc.quote

\* C5 amended: the maximum acceptable pay amount is never less than the raw
\* quote, strictly greater whenever quote * tolerance is at least one integer
\* unit, and equal to the raw quote when tolerance = 0 or when
\* quote * tolerance is less than one integer unit.
C5_MaxGreaterByWholeUnits ==
  calc.fn = "_maxPayAmount" /\ calc.out # Undefined =>
    /\ calc.out[1] >= calc.quote
    /\ calc.quote * calc.slip >= SlipDen => calc.out[1] > calc.quote
    /\ calc.quote * calc.slip < SlipDen => calc.out[1] = calc.quote

C5_Witness ==
  /\ calc.fn = "_maxPayAmount" /\ calc.quote = 50 /\ calc.slip = 2
  /\ calc.out = Some(51)

\* C6: sell(ETH, T, amount) with T a non-native token and no existing proxy
\* gives variant createAndSellAllAmountPayEth, parameters [proxy-registry
\* address, exchange address, address of T, integer limit] and attached
\* value the amount in WETH integer units.
C6_CreateAndSellParams ==
  \A s \in Slots :
    Done(s) /\ req[s].op = "sell" /\ req[s].sell = "ETH" /\ req[s].buy # "ETH"
      /\ req[s].proxy = Undefined =>
        /\ TheOrder(s).method =
             <<"create", "And", "Sell", "All", "Amount", "Pay", "Eth">>
        /\ TheOrder(s).params =
             <<Addr(ContractAddress("PROXY_REGISTRY")),
               Addr(ContractAddress("MAKER_OTC")),
               Addr(_getTokenAddress(req[s].buy)), Uint(req[s].limit[1])>>
        /\ TheOrder(s).options.value = Some(req[s].amount * WeiPerUnit)

\* C7: sell(S, B, amount) with S and B non-native and a proxy gives variant
\* sellAllAmount, parameters [exchange address, address of S, integer amount
\* of S, address of B, integer limit], no attached value and dsProxy = true.
C7_TokenForTokenSell ==
  \A s \in Slots :
    Done(s) /\ req[s].op = "sell" /\ req[s].sell # "ETH" /\ req[s].buy # "ETH"
      /\ req[s].proxy # Undefined =>
        /\ TheOrder(s).method = <<"sell", "All", "Amount">>
        /\ TheOrder(s).params =
             <<Addr(ContractAddress("MAKER_OTC")),
               Addr(_getTokenAddress(req[s].sell)),
               Uint(req[s].amount * WeiPerUnit),
               Addr(_getTokenAddress(req[s].buy)), Uint(req[s].limit[1])>>
        /\ TheOrder(s).options.value = Undefined
        /\ TheOrder(s).options.dsProxy = Some(TRUE)

C7_Witness ==
  \E s \in Slots :
    /\ Done(s) /\ req[s].op = "sell" /\ req[s].sell = "DAI" /\ req[s].buy = "MKR"
    /\ req[s].amount = 1 /\ req[s].proxy # Undefined
    /\ TheOrder(s).method = <<"sell", "All", "Amount">>

C9_AttachedValue ==
  \A s \in Slots :
    Done(s) =>
      /\ TheOrder(s).options.value =
           IF TheOrder(s).method \in
                {<<"buy", "All", "Amount", "Pay", "Eth">>,
                 <<"create", "And", "Buy", "All", "Amount", "Pay", "Eth">>}
             THEN req[s].limit
           ELSE IF req[s].sell = "ETH"
             THEN Some(req[s].amount * WeiPerUnit)
           ELSE Undefined
      /\ req[s].op = "buy" /\ req[s].sell = "ETH" /\ req[s].buy # "ETH"
           /\ req[s].proxy # Undefined =>
             /\ TheOrder(s).method = <<"buy", "All", "Amount", "Pay", "Eth">>
             /\ TheOrder(s).options.value = req[s].limit

C9_Witness ==
  \E s \in Slots :
    /\ Done(s) /\ req[s].op = "buy" /\ req[s].sell = "ETH" /\ req[s].buy = "DAI"
    /\ req[s].proxy # Undefined /\ req[s].amount = 1
    /\ TheOrder(s).method = <<"buy", "All", "Amount", "Pay", "Eth">>
    /\ TheOrder(s).options.value = req[s].limit
    /\ req[s].limit # Some(req[s].amount * WeiPerUnit)

\* C10: two orders constructed one immediately after the other with the same
\* inputs, nothing else being called in between, carry the same limit.
C10_SameInputsSameLimit ==
  \A s \in Slots :
    Done(s) /\ req[s].twin # Undefined => req[s].limit = req[s].twin

C10_Witness ==
  \E s \in Slots :
    /\ Done(s) /\ req[s].twin # Undefined /\ slippage = 50
    /\ req[s].op = "sell" /\ req[s].limit[1] > 0

(***************************************************************************)
(* Properties of the steps of a call                                       *)
(***************************************************************************)
Range(seq) == {seq[i] : i \in DOMAIN seq}

NoRepeat(seq) == \A i, j \in DOMAIN seq : seq[i] = seq[j] => i = j

Before(seq, x, y) ==
  \E i, j \in DOMAIN seq : seq[i] = x /\ seq[j] = y /\ i < j

\* the steps a raising collaborator is called in
StepsCalling(at) ==
  IF at = "registry" THEN {"quote", "_buildParams"} ELSE {at}

\* C11: when a collaborator step of a sell / buy call fails (proxy lookup,
\* proxy creation, registry lookup, quote query, allowance requirement), the
\* call rejects with the very error the collaborator raised, the failing
\* step is the last step the call began, no step was begun twice, and no
\* order is handed over; an order is handed over only by a call that did
\* not fail.
C11_FailureSurfacedNoOrder ==
  \A s \in Slots :
    /\ req[s].pc = "failed" =>
         /\ req[s].error # Undefined
         /\ req[s].error[1].error = RaisedBy(req[s].error[1].at)
         /\ req[s].steps[Len(req[s].steps)] \in StepsCalling(req[s].error[1].at)
         /\ NoRepeat(req[s].steps)
         /\ "build" \notin Range(req[s].steps)
         /\ req[s].order = Undefined
    /\ req[s].order # Undefined => req[s].pc = "done" /\ req[s].error = Undefined

\* requireAllowance raised after parameters and options were built
C11_Witness ==
  \E s \in Slots :
    /\ req[s].pc = "failed"
    /\ req[s].error[1].at = "requireAllowance"
    /\ req[s].params # << >> /\ req[s].options # Undefined

Count(seq, x) == Cardinality({i \in DOMAIN seq : seq[i] = x})

\* C13: with one caller, _checkProxy returns the proxy currentProxy()
\* yielded without calling ensureProxy; when currentProxy() yielded none and
\* the sell asset is not ETH it calls ensureProxy exactly once, while no
\* proxy exists, and returns its result; when currentProxy() yielded none
\* and the sell asset is ETH it returns false and no proxy is made.
\* ensureProxy is called only when no proxy exists and the sell asset is
\* not ETH.
C13_CheckProxyThreeWay ==
  \A s \in Slots :
    LET r == req[s]
        returned == "_setMethod" \in Range(r.steps)
    IN /\ r.found = Undefined => ~returned /\ "ensureProxy" \notin Range(r.steps)
       /\ r.found # Undefined /\ r.found[1] # Undefined =>
            /\ "ensureProxy" \notin Range(r.steps)
            /\ returned /\ r.proxy = r.found[1]
       /\ r.found = Some(Undefined) /\ r.sell # "ETH" =>
            /\ Count(r.steps, "ensureProxy") = 1
            /\ returned => r.proxy = Some(ProxyHandle) /\ proxyExists
       /\ r.found = Some(Undefined) /\ r.sell = "ETH" =>
            /\ "ensureProxy" \notin Range(r.steps)
            /\ returned /\ r.proxy = Undefined
            /\ ~proxyExists
       /\ "ensureProxy" \in Range(r.steps) =>
            r.found = Some(Undefined) /\ r.sell # "ETH"
       /\ r.pc = "ensureProxy" => ~proxyExists

\* a call that found no proxy, had one made and went on with it
C13_Witness ==
  \E s \in Slots :
    /\ req[s].pc = "done" /\ req[s].found = Some(Undefined)
    /\ Count(req[s].steps, "ensureProxy") = 1
    /\ req[s].proxy = Some(ProxyHandle)

\* the steps of sell / buy in the order of the source text
PassOrder ==
  <<"currentProxy", "ensureProxy", "_setMethod", "quote", "limit",
    "_buildParams", "_buildOptions", "requireAllowance", "build">>

Position(x) == CHOOSE i \in DOMAIN PassOrder : PassOrder[i] = x

\* C14: the steps a sell / buy call has begun are taken from the fixed
\* order proxy lookup, proxy creation, method selection, quote query, limit
\* computation, parameter building, options building, allowance, hand-off,
\* each at most once and never out of that order; the proxy is looked up
\* exactly once, first; while proxy creation is pending, and when it
\* failed, no method is selected and no parameters are built; a finished
\* call has made every step that is not conditional; what the call holds
\* (method, parameters, options, order) is what its steps produced.
C14_OnePassFixedOrder ==
  \A s \in Slots :
    LET r == req[s]
    IN /\ \A i, j \in DOMAIN r.steps :
            i < j => Position(r.steps[i]) < Position(r.steps[j])
       /\ r.pc # "idle" =>
            r.steps[1] = "currentProxy" /\ Count(r.steps, "currentProxy") = 1
       /\ \/ r.pc = "ensureProxy"
          \/ r.pc = "failed" /\ r.error[1].at = "ensureProxy"
          => /\ r.steps = <<"currentProxy", "ensureProxy">>
             /\ r.method = << >> /\ r.params = << >> /\ r.limit = Undefined
       /\ r.pc = "done" =>
            {"currentProxy", "_setMethod", "limit", "_buildParams",
             "_buildOptions", "build"} \subseteq Range(r.steps)
       /\ r.method # << >> <=> "_setMethod" \in Range(r.steps)
       /\ r.limit # Undefined <=> "_buildOptions" \in Range(r.steps)
       /\ r.params # << >> <=> "_buildOptions" \in Range(r.steps)
       /\ r.options # Undefined <=> "_buildOptions" \in Range(r.steps)
       /\ r.order # Undefined <=> "build" \in Range(r.steps)

\* a call that made every step: proxy created, exchange queried, allowance
\* required, order handed over
C14_Witness ==
  \E s \in Slots : req[s].pc = "done" /\ req[s].steps = PassOrder

StartsWith(m, prefix) ==
  /\ Len(m) >= Len(prefix)
  /\ SubSeq(m, 1, Len(prefix)) = prefix

\* C15: in every order built by sell or buy, options.dsProxy is true if
\* and only if the name of the selected variant does not start with
\* 'createAnd', and is not assigned otherwise.
C15_DsProxyUnlessCreateAnd ==
  \A s \in Slots :
    Done(s) =>
      /\ TheOrder(s).options.dsProxy = Some(TRUE)
           <=> ~StartsWith(TheOrder(s).method, <<"create", "And">>)
      /\ TheOrder(s).options.dsProxy \in {Undefined, Some(TRUE)}

\* an atomic create-and-execute order: dsProxy is not set
C15_Witness ==
  \E s \in Slots :
    /\ Done(s)
    /\ TheOrder(s).method = <<"create", "And", "Buy", "All", "Amount", "Pay", "Eth">>
    /\ TheOrder(s).options.dsProxy = Undefined

\* the addresses the token registry gives for the tokens it knows
RegistryAddresses ==
  {_getTokenAddress(t) : t \in (Tokens \ {"ETH"}) \cup {"WETH"}}

\* the addresses of the contracts that appear among the parameters
ContractAddresses ==
  {ContractAddress(_otc), ContractAddress("PROXY_REGISTRY")}

\* the symbol that stands for an asset of the request where an address is due
AssetSymbol(token) == IF token = "ETH" THEN "WETH" ELSE token

\* C16: in every quote query a sell / buy call issues and in every order it
\* builds, ETH is not among the symbols resolved to an address: the query
\* names WETH where the request names ETH, every address parameter is the
\* address of a contract or an address the token registry gives for a
\* token it knows, and in the five-parameter shape the two asset addresses
\* are those of the sell and buy asset with WETH in the place of ETH.
C16_NativeNeverAnAddress ==
  \A s \in Slots :
    LET r == req[s]
    IN /\ r.asked # Undefined =>
            /\ r.asked[1].buyToken = AssetSymbol(r.buy)
            /\ r.asked[1].payToken = AssetSymbol(r.sell)
            /\ _getTokenAddress(r.asked[1].buyToken) \in RegistryAddresses
            /\ _getTokenAddress(r.asked[1].payToken) \in RegistryAddresses
       /\ Done(s) =>
            /\ \A i \in DOMAIN r.params :
                 r.params[i].kind = "address" =>
                   /\ r.params[i].addr \in RegistryAddresses \cup ContractAddresses
                   /\ r.params[i].addr # _getTokenAddress("ETH")
            /\ TheOrder(s).params = r.params
            /\ Len(r.params) = 5 =>
                 {r.params[2].addr, r.params[4].addr} =
                   {_getTokenAddress(AssetSymbol(r.sell)),
                    _getTokenAddress(AssetSymbol(r.buy))}

\* an order selling a token for ETH after the exchange was asked: the
\* address in the buy position is that of WETH
C16_Witness ==
  \E s \in Slots :
    /\ Done(s) /\ req[s].op = "sell" /\ req[s].buy = "ETH" /\ req[s].sell = "MKR"
    /\ req[s].asked # Undefined /\ req[s].asked[1].buyToken = "WETH"
    /\ req[s].params[4] = Addr("0xWETH")

\* an integer amount of contract units read back as human units
HumanUnits(n) == n \div WeiPerUnit

\* C17: getBuyAmount converts the amount with the unit conversion of the pay
\* asset, getPayAmount with that of the buy asset, the integer so obtained
\* is what the exchange is asked with, and each returns the exchange's
\* answer converted back to human units.
C17_QuoteConvertsBothWays ==
  /\ calc.fn = "getBuyAmount" /\ calc.out # Undefined =>
       /\ calc.unit = calc.sell
       /\ calc.sent = _valueForContract(calc.amount, calc.sell)
       /\ calc.out = Some(HumanUnits(calc.answer))
  /\ calc.fn = "getPayAmount" /\ calc.out # Undefined =>
       /\ calc.unit = calc.buy
       /\ calc.sent = _valueForContract(calc.amount, calc.buy)
       /\ calc.out = Some(HumanUnits(calc.answer))

\* C18: every order built by sell or buy that is marked to route through
\* the proxy (options.dsProxy = true) was built by a call whose proxy
\* resolution returned a handle of a proxy that exists and that invoked
\* requireAllowance for it.
C18_RoutedOnlyThroughExistingProxy ==
  \A s \in Slots :
    Done(s) /\ TheOrder(s).options.dsProxy = Some(TRUE) =>
      /\ req[s].proxy # Undefined
      /\ proxyExists
      /\ req[s].allowance # Undefined
      /\ "requireAllowance" \in Range(req[s].steps)

\* the positions of the settlement-asset address among the parameters of a
\* sell order: the third of the four-parameter shapes, the fourth of the
\* five-parameter shape
SettlementAddress(params) ==
  IF Len(params) = 5 THEN params[4].addr ELSE params[3].addr

\* C19: in every sell order the currency packaged into the order and the
\* settlement-asset address among the parameters both denote the buy asset
\* of the request, with WETH in the place of ETH.
C19_SellSettlesInBuyAsset ==
  \A s \in Slots :
    Done(s) /\ req[s].op = "sell" =>
      /\ TheOrder(s).currency = Some(AssetSymbol(req[s].buy))
      /\ SettlementAddress(TheOrder(s).params)
           = _getTokenAddress(AssetSymbol(req[s].buy))
====
